---- MODULE Spec2Model ----
(***************************************************************************)
(* Model of the rig position snapshot store of wells_fug:                  *)
(* scripts/fetch/update_bw_snapshots.py (merge of position reports into    *)
(* the per-rig rolling history, 12h bucket, midnight rollover, the two     *)
(* documents it persists).  Time is counted in whole hours since an epoch  *)
(* that falls on 00:00 UTC.                                                *)
(* Further parts: scripts/update_lastknownpos.py (the last known position  *)
(* of every rig), and the per-rig analysis of scripts/fetch/fetch_kdhdata  *)
(* .py and scripts/analyze/rig_well_analysis.py (movement, distance to the *)
(* assigned wells, status).                                                *)
(***************************************************************************)
EXTENDS Integers, Sequences, FiniteSets, TLC

VARIABLES
    now,        \* main(): `now`, datetime.now(timezone.utc) read as the run starts
    pc,         \* position of the running update_bw_snapshots process
    snapshots,  \* main(): the in-memory dict `snapshots`, in insertion order
    msg,        \* main(): the loop variable `msg` of the merge loop
    nbatch,     \* number of entries of bw_messages consumed so far
    merged,     \* the reports of this run that were merged into a snapshot
    fs,         \* the files docs/data/bw_snapshots.json and ais_msg_main.json
    runlog,     \* one record per run that reached the rollover step
    outcome,    \* how the previous process ended
    nruns,      \* number of runs started
    observed,   \* what a reader of the documents (the display layer) last read
    durable,    \* the documents as they were when the current run started
    lkfile,     \* update_lastknownpos: the file docs/data/lastknowndata.json
    lkpc,       \* position of the running update_lastknownpos process
    last_known, \* update_lastknownpos: the dict `last_known`, in insertion order
    lkoutcome,  \* how the previous update_lastknownpos process ended
    rig_snap,   \* the analysis: the snapshot of the rig under analysis
    rig_wells,  \* the analysis: the wells of sodirdata.json, in document order
    kdh_result, \* fetch_kdhdata.main: the entry of rig_results for the rig
    rwa_result, \* rig_well_analysis.main: the entry of output["rigs"] for the rig
    resolved,   \* the last call of get_reference_position and what it returned
    messages,   \* fetch_bwdata: the AIS messages the API returned
    bw_rigs,    \* fetch/fetch_bwdata.py: `rigs`, what filter_latest_by_rig returned
    bwdata,     \* scripts/fetch_bwdata.py: the list written to docs/bwdata.json
    kdhdata,    \* the file docs/data/kdhdata.json
    main2,      \* the file docs/data/ais_msg_main2.json
    rwa_file,   \* the file docs/data/rig_well_analysis.json
    kdhpc,      \* position of the running fetch_kdhdata process
    kdhmem      \* fetch_kdhdata.main: its locals ais_main and rig_results

\* the state of the snapshot store process
storevars == <<now, pc, snapshots, msg, nbatch, merged, fs, runlog, outcome, nruns, observed, durable>>

\* the state of update_lastknownpos
lkvars == <<lkfile, lkpc, last_known, lkoutcome>>

\* the state of the analysis of one rig
anvars == <<rig_snap, rig_wells, kdh_result, rwa_result, resolved>>

\* the state of the two fetch_bwdata scripts
fetchvars == <<messages, bw_rigs, bwdata>>

\* the documents around kdhdata.json and the process fetch_kdhdata.main
pipevars == <<kdhdata, main2, rwa_file, kdhpc, kdhmem>>

vars == <<storevars, lkvars, anvars, fetchvars, pipevars>>

-----------------------------------------------------------------------------
(* Bounds of the model *)

MaxRuns == 2
MaxBatch == 2
BurstLen == 13
MaxMessages == 3

(* Program constants *)

MAX_RUNNING == 12
HOURS_12 == 12
DAY_HOURS == 24

-----------------------------------------------------------------------------
(* Values *)

\* Python's None
None == [none |-> TRUE]

\* dict.get(field): None when the key is missing
Get(d, field) == IF field \in DOMAIN d THEN d[field] ELSE None

\* An mmsi as it appears in a report or as a dict key: a JSON number, a JSON
\* string, or missing
IntKey(i) == [kind |-> "int", id |-> i]
StrKey(i) == [kind |-> "str", id |-> i]
NoKey == [kind |-> "none", id |-> 0]

\* json.dump writes every dict key as a string: 257095000 becomes "257095000"
KeyToJson(k) == StrKey(k.id)

\* A msgtime string: "....Z", "....+01:00", "....+02:00", one without an offset, or one
\* that is missing or is no ISO-8601 text
TimeStr(form, local) == [form |-> form, local |-> local]

\* datetime.fromisoformat(msg["msgtime"].replace("Z", "+00:00"))
fromisoformat(s) ==
    CASE s.form = "Z"     -> [kind |-> "aware", t |-> s.local]
      [] s.form = "p1"    -> [kind |-> "aware", t |-> s.local - 1]
      [] s.form = "p2"    -> [kind |-> "aware", t |-> s.local - 2]
      [] s.form = "naive" -> [kind |-> "naive", t |-> s.local]
      [] OTHER            -> [kind |-> "error", t |-> 0]

\* a text where None may stand as well
Str(s) == [str |-> s]

\* a JSON number; null is None
Num(v) == [num |-> v]

\* a position report: its mmsi, its msgtime and its position
ReportAt(k, s, lat, lon) == [mmsi |-> k, msgtime |-> s, latitude |-> lat, longitude |-> lon]

Report(k, s) == ReportAt(k, s, Num(0), Num(0))

\* the snapshot created for an mmsi that is not in the store
NewSnapshot ==
    [msg_recent |-> None, running_msgs |-> <<>>, msg_12h |-> None,
     msg_1d |-> None, msg_2d |-> None]

-----------------------------------------------------------------------------
(* dicts in insertion order: sequences of [key, val] *)

HasKey(d, k) == \E i \in 1..Len(d) : d[i].key = k
IndexOf(d, k) == CHOOSE i \in 1..Len(d) : d[i].key = k
Lookup(d, k) == d[IndexOf(d, k)].val
SetItem(d, k, v) ==
    IF HasKey(d, k) THEN [d EXCEPT ![IndexOf(d, k)].val = v]
    ELSE Append(d, [key |-> k, val |-> v])

\* json.dump of a dict: the items in order, keys turned into strings (two keys
\* that turn into the same string are both written)
RECURSIVE JsonDump(_)
JsonDump(d) ==
    IF d = <<>> THEN <<>>
    ELSE <<[key |-> KeyToJson(Head(d).key), val |-> Head(d).val]>> \o JsonDump(Tail(d))

\* json.load of an object: a later duplicate of a key replaces the value
RECURSIVE JsonLoadItems(_, _)
JsonLoadItems(items, acc) ==
    IF items = <<>> THEN acc
    ELSE JsonLoadItems(Tail(items), SetItem(acc, Head(items).key, Head(items).val))

-----------------------------------------------------------------------------
(* Files *)

SNAPSHOT_PATH == "bw_snapshots"
MAIN_MSG_PATH == "ais_msg_main"
Paths == {SNAPSHOT_PATH, MAIN_MSG_PATH}

Missing == [state |-> "missing", doc |-> <<>>]
Truncated == [state |-> "empty", doc |-> <<>>]
PartlyWritten == [state |-> "partial", doc |-> <<>>]
Written(text) == [state |-> "full", doc |-> text]

\* load_snapshots: {} for a missing file and for one json cannot decode
load_snapshots(file) ==
    IF file.state = "full" THEN JsonLoadItems(file.doc, <<>>) ELSE <<>>

-----------------------------------------------------------------------------
(* The merge of one report *)

Age(dt) == now - dt.t

\* list.sort(key=msgtime_dt): stable, ascending
RECURSIVE InsertSorted(_, _)
InsertSorted(s, r) ==
    IF s = <<>> THEN <<r>>
    ELSE IF s[Len(s)].msgtime_dt.t <= r.msgtime_dt.t THEN Append(s, r)
    ELSE Append(InsertSorted(SubSeq(s, 1, Len(s) - 1), r), s[Len(s)])

RECURSIVE SortByDt(_)
SortByDt(s) ==
    IF s = <<>> THEN <<>>
    ELSE InsertSorted(SortByDt(SubSeq(s, 1, Len(s) - 1)), s[Len(s)])

\* "Avoid duplicate times": all(r.get("msgtime") != msg["msgtime"] ...)
NoDuplicateTime(running, m) ==
    \A i \in 1..Len(running) : Get(running[i], "msgtime") # m.msgtime

\* the list after "Maintain running messages", before it is sorted
Appended(running, m) ==
    IF NoDuplicateTime(running, m)
    THEN Append(running, [msg |-> m, msgtime_dt |-> fromisoformat(m.msgtime)])
    ELSE running

\* a variant of KeepMax: the slice keeps one entry too many
KeepMaxOffByOne(s) ==
    IF Len(s) > MAX_RUNNING THEN SubSeq(s, Len(s) - MAX_RUNNING, Len(s)) ELSE s

\* "Keep max 12": running_msgs[-12:]
KeepMax(s) ==
    IF Len(s) > MAX_RUNNING THEN SubSeq(s, Len(s) - MAX_RUNNING + 1, Len(s)) ELSE s

\* a variant of Refresh12h: the comparison is > instead of >=
Refresh12hStrict(old, running) ==
    IF \E i \in 1..Len(running) : Age(running[i].msgtime_dt) > HOURS_12
    THEN running[CHOOSE i \in 1..Len(running) :
                    /\ Age(running[i].msgtime_dt) > HOURS_12
                    /\ \A j \in 1..(i - 1) : Age(running[j].msgtime_dt) <= HOURS_12].msg
    ELSE old

\* "msg_12h": the first entry of the sorted list that is 12 hours old or older
\* replaces the bucket; the bucket is left alone when there is none
Refresh12h(old, running) ==
    IF \E i \in 1..Len(running) : Age(running[i].msgtime_dt) >= HOURS_12
    THEN running[CHOOSE i \in 1..Len(running) :
                    /\ Age(running[i].msgtime_dt) >= HOURS_12
                    /\ \A j \in 1..(i - 1) : Age(running[j].msgtime_dt) < HOURS_12].msg
    ELSE old

\* "Remove old messages >12h"
RemoveOld(s) == SelectSeq(s, LAMBDA r : Age(r.msgtime_dt) < HOURS_12)

\* sorting raises KeyError on an entry without msgtime_dt (one loaded from the
\* store) and TypeError when a naive datetime meets an aware one; the age of a
\* naive datetime raises TypeError too
MergeRaises(running) ==
    \E i \in 1..Len(running) :
        \/ "msgtime_dt" \notin DOMAIN running[i]
        \/ running[i].msgtime_dt.kind # "aware"

\* the exception: the sort key is computed for every entry before any two
\* datetimes are compared
RaisedBy(running) ==
    IF \E i \in 1..Len(running) : "msgtime_dt" \notin DOMAIN running[i]
    THEN "KeyError" ELSE "TypeError"

\* the snapshot after the loop body has run for report m
MergedSnapshot(snap, m) ==
    LET kept == KeepMax(SortByDt(Appended(snap.running_msgs, m)))
    IN [snap EXCEPT !.msg_recent = m,
                    !.msg_12h = Refresh12h(snap.msg_12h, kept),
                    !.running_msgs = RemoveOld(kept)]

\* the store the loop body works on: a new snapshot is added for an unseen mmsi
WithSnapshot(d, k) == IF HasKey(d, k) THEN d ELSE Append(d, [key |-> k, val |-> NewSnapshot])

\* lines 142-149: main_doc, the buckets of every snapshot
MainDoc(d) ==
    [i \in 1..Len(d) |->
        [key |-> d[i].key,
         val |-> [msg_recent |-> Get(d[i].val, "msg_recent"),
                  msg_12h |-> Get(d[i].val, "msg_12h"),
                  msg_1d |-> Get(d[i].val, "msg_1d"),
                  msg_2d |-> Get(d[i].val, "msg_2d")]]]

\* lines 126-129: "update at midnight UTC"
Hour(t) == t % DAY_HOURS
Date(t) == t \div DAY_HOURS
IsRolloverTime(t) == Hour(t) = 0

\* a variant of Shifted: the two assignments in the other order
ShiftedSwapped(snap) ==
    [snap EXCEPT !.msg_1d = Get(snap, "msg_12h"), !.msg_2d = Get(snap, "msg_12h")]

Shifted(snap) ==
    [snap EXCEPT !.msg_2d = Get(snap, "msg_1d"), !.msg_1d = Get(snap, "msg_12h")]

ShiftAll(d) == [i \in 1..Len(d) |-> [key |-> d[i].key, val |-> Shifted(d[i].val)]]

\* lines 132-134: r.pop("msgtime_dt", None) for every history entry
Popped(running) == [i \in 1..Len(running) |-> [msg |-> running[i].msg]]

StripAll(d) ==
    [i \in 1..Len(d) |->
        [key |-> d[i].key,
         val |-> [d[i].val EXCEPT !.running_msgs = Popped(d[i].val.running_msgs)]]]

-----------------------------------------------------------------------------
(* Inputs *)

Elapsed == {0, 1, 12}

\* the reports a run may find in bw_ais.json
Reports(t) ==
    {Report(IntKey(1), TimeStr("Z", t - 1)),
     Report(IntKey(1), TimeStr("Z", t - HOURS_12)),
     Report(StrKey(1), TimeStr("Z", t - 1)),
     Report(IntKey(2), TimeStr("Z", t - 2)),
     Report(IntKey(1), TimeStr("naive", t - 1)),
     Report(IntKey(1), TimeStr("bad", 0)),
     Report(NoKey, TimeStr("Z", t - 1)),
     ReportAt(IntKey(2), TimeStr("Z", t - 1), None, Num(0))}

\* the reports of the runs that are followed over several midnights
RollReports(t) ==
    {Report(IntKey(1), TimeStr("Z", t - HOURS_12)),
     Report(IntKey(2), TimeStr("Z", t - HOURS_12)),
     Report(IntKey(1), TimeStr("Z", t - 1))}

\* the reports of a run whose documents are read and whose writes may fail
FewReports(t) ==
    {Report(IntKey(1), TimeStr("Z", t - 1)),
     Report(IntKey(2), TimeStr("Z", t - HOURS_12))}

\* the reports of a run that merges a long batch
BurstReports(t) ==
    {Report(IntKey(1), TimeStr("Z", t - 1)),
     Report(IntKey(1), TimeStr("Z", t - 2)),
     Report(IntKey(1), TimeStr("Z", t - HOURS_12)),
     Report(IntKey(2), TimeStr("Z", t - 1))}

-----------------------------------------------------------------------------
(* The process update_bw_snapshots.main *)

\* update_lastknownpos has not run yet
LKInit ==
    /\ lkfile = Missing
    /\ lkpc = "idle"
    /\ last_known = <<>>
    /\ lkoutcome = "none"

\* no fetch_bwdata script has run
FetchIdle ==
    /\ messages = <<>>
    /\ bw_rigs = None
    /\ bwdata = None

\* kdhdata.json and the documents derived from it do not exist yet
PipeIdle ==
    /\ kdhdata = Missing
    /\ main2 = Missing
    /\ rwa_file = Missing
    /\ kdhpc = "idle"
    /\ kdhmem = None

\* no rig is under analysis
AnalysisIdle ==
    /\ rig_snap = None
    /\ rig_wells = <<>>
    /\ kdh_result = None
    /\ rwa_result = None
    /\ resolved = None

Init ==
    /\ LKInit
    /\ FetchIdle
    /\ PipeIdle
    /\ AnalysisIdle
    /\ now = 23
    /\ pc = "idle"
    /\ snapshots = <<>>
    /\ msg = None
    /\ nbatch = 0
    /\ merged = {}
    /\ fs = [p \in Paths |-> Missing]
    /\ runlog = <<>>
    /\ outcome = "none"
    /\ nruns = 0
    /\ observed = [path |-> "none", state |-> "none"]
    /\ durable = [p \in Paths |-> Missing]

\* the process ends; its memory is gone
Exit(how) ==
    /\ pc' = "idle"
    /\ snapshots' = <<>>
    /\ msg' = None
    /\ nbatch' = 0
    /\ merged' = {}
    /\ outcome' = how
    /\ durable' = fs'

\* lines 61-63: now, load_bw_messages, load_snapshots
StartRun(d) ==
    /\ UNCHANGED <<lkvars, anvars, fetchvars, pipevars>>
    /\ pc = "idle"
    /\ nruns < MaxRuns
    /\ nruns' = nruns + 1
    /\ now' = now + d
    /\ snapshots' = load_snapshots(fs[SNAPSHOT_PATH])
    /\ pc' = "merge"
    /\ msg' = None
    /\ nbatch' = 0
    /\ merged' = {}
    /\ outcome' = "running"
    /\ UNCHANGED <<fs, runlog, observed>>
    /\ durable' = fs

\* lines 66-121: one pass of the loop body, for the next report m of the input
MergeOne(m, limit) ==
    /\ UNCHANGED <<lkvars, anvars, fetchvars, pipevars>>
    /\ pc = "merge"
    /\ nbatch < limit
    /\ UNCHANGED <<now, fs, runlog, nruns, observed>>
    /\ IF fromisoformat(m.msgtime).kind = "error" \/ m.mmsi = NoKey
       THEN \* except Exception: continue / if mmsi is None: continue
            /\ msg' = m
            /\ nbatch' = nbatch + 1
            /\ UNCHANGED <<pc, snapshots, merged, outcome, durable>>
       ELSE LET d == WithSnapshot(snapshots, m.mmsi)
                snap == Lookup(d, m.mmsi)
            IN IF MergeRaises(Appended(snap.running_msgs, m))
               THEN Exit(RaisedBy(Appended(snap.running_msgs, m)))
               ELSE /\ snapshots' = SetItem(d, m.mmsi, MergedSnapshot(snap, m))
                    /\ msg' = m
                    /\ nbatch' = nbatch + 1
                    /\ merged' = merged \cup {m}
                    /\ UNCHANGED <<pc, outcome, durable>>

\* lines 126-129: the input is exhausted; the midnight shift
Rollover ==
    /\ UNCHANGED <<lkvars, anvars, fetchvars, pipevars>>
    /\ pc = "merge"
    /\ pc' = "strip"
    /\ snapshots' = IF IsRolloverTime(now) THEN ShiftAll(snapshots) ELSE snapshots
    /\ runlog' = Append(runlog, [date |-> Date(now), hour |-> Hour(now),
                                 shifted |-> IsRolloverTime(now)])
    /\ msg' = None
    /\ UNCHANGED <<now, nbatch, merged, fs, outcome, nruns, observed, durable>>

\* lines 132-134
Strip ==
    /\ UNCHANGED <<lkvars, anvars, fetchvars, pipevars>>
    /\ pc = "strip"
    /\ pc' = "open_snap"
    /\ snapshots' = StripAll(snapshots)
    /\ UNCHANGED <<now, msg, nbatch, merged, fs, runlog, outcome, nruns, observed, durable>>

\* path.open("w"): the file is created or truncated
OpenW(at, path, next) ==
    /\ UNCHANGED <<lkvars, anvars, fetchvars, pipevars>>
    /\ pc = at
    /\ pc' = next
    /\ fs' = [fs EXCEPT ![path] = Truncated]
    /\ UNCHANGED <<now, snapshots, msg, nbatch, merged, runlog, outcome, nruns, observed, durable>>

\* json.dump(data, f, indent=2): the text reaches the file piece by piece
DumpSome(at, path, next) ==
    /\ UNCHANGED <<lkvars, anvars, fetchvars, pipevars>>
    /\ pc = at
    /\ pc' = next
    /\ fs' = [fs EXCEPT ![path] = PartlyWritten]
    /\ UNCHANGED <<now, snapshots, msg, nbatch, merged, runlog, outcome, nruns, observed, durable>>

\* the end of the with block: the rest of the text is flushed, the file closed
CloseSnapshots ==
    /\ UNCHANGED <<lkvars, anvars, fetchvars, pipevars>>
    /\ pc = "close_snap"
    /\ pc' = "open_main"
    /\ fs' = [fs EXCEPT ![SNAPSHOT_PATH] = Written(JsonDump(snapshots))]
    /\ UNCHANGED <<now, snapshots, msg, nbatch, merged, runlog, outcome, nruns, observed, durable>>

CloseMain ==
    /\ UNCHANGED <<lkvars, anvars, fetchvars, pipevars>>
    /\ pc = "close_main"
    /\ fs' = [fs EXCEPT ![MAIN_MSG_PATH] = Written(JsonDump(MainDoc(snapshots)))]
    /\ Exit("done")
    /\ UNCHANGED <<now, runlog, nruns, observed>>

\* save_snapshots (lines 50-54) and lines 151-153, step by step
SaveSnapshots ==
    \/ OpenW("open_snap", SNAPSHOT_PATH, "dump_snap")
    \/ DumpSome("dump_snap", SNAPSHOT_PATH, "close_snap")
    \/ CloseSnapshots

SaveMain ==
    \/ OpenW("open_main", MAIN_MSG_PATH, "dump_main")
    \/ DumpSome("dump_main", MAIN_MSG_PATH, "close_main")
    \/ CloseMain

\* open, write or flush raises OSError (disk full, I/O error): nothing catches it
WritePcs == {"open_snap", "dump_snap", "close_snap", "open_main", "dump_main", "close_main"}

WriteFails ==
    /\ UNCHANGED <<lkvars, anvars, fetchvars, pipevars>>
    /\ pc \in WritePcs
    /\ UNCHANGED <<now, fs, runlog, nruns, observed>>
    /\ Exit("io_error")

\* a reader of the documents, at any moment
ReadDoc(path) ==
    /\ UNCHANGED <<lkvars, anvars, fetchvars, pipevars>>
    /\ observed' = [path |-> path, state |-> fs[path].state]
    /\ UNCHANGED <<now, pc, snapshots, msg, nbatch, merged, fs, runlog, outcome, nruns, durable>>

Next ==
    \/ \E d \in Elapsed : StartRun(d)
    \/ \E m \in Reports(now) : MergeOne(m, MaxBatch)
    \/ Rollover
    \/ Strip
    \/ SaveSnapshots
    \/ SaveMain

Spec == Init /\ [][Next]_vars

\* the runs seen together with a reader of the documents and failing writes
NextIO ==
    \/ \E d \in Elapsed : StartRun(d)
    \/ \E m \in FewReports(now) : MergeOne(m, MaxBatch)
    \/ Rollover
    \/ Strip
    \/ SaveSnapshots
    \/ SaveMain
    \/ WriteFails
    \/ \E p \in Paths : ReadDoc(p)

SpecIO == Init /\ [][NextIO]_vars

\* one run that merges a long batch
NextBurst ==
    \/ StartRun(1) /\ nruns = 0
    \/ \E m \in BurstReports(now) : MergeOne(m, BurstLen)
    \/ Rollover

SpecBurst == Init /\ [][NextBurst]_vars

\* runs around midnight
NextRoll ==
    \/ \E d \in {0, 1} : StartRun(d)
    \/ \E m \in RollReports(now) : MergeOne(m, MaxBatch)
    \/ Rollover
    \/ Strip
    \/ SaveSnapshots
    \/ SaveMain

SpecRoll == Init /\ [][NextRoll]_vars

-----------------------------------------------------------------------------
(* scripts/update_lastknownpos.py: the last known position of every rig *)

\* a JSON array and a JSON object that may hold a "rigs" array
JList(items) == [json |-> "list", items |-> items]
JObj(rigs) == [json |-> "dict", rigs |-> rigs]
JObjNoRigs == [json |-> "dict"]

\* an excerpt of the registry, in the order of its keys
RIG_MMSI ==
    << [key |-> "WEST LINUS", val |-> 257095000],
       [key |-> "WEST ELARA", val |-> 259783000] >>

\* read_json: json.load is not guarded, a file json cannot decode raises
\* JSONDecodeError out of read_json
ReadRaises(file) == file.state \in {"empty", "partial"}

\* read_json: the document, None when the file does not exist
read_json(file) == IF file.state = "full" THEN file.doc ELSE None

\* `.get` is called on the document or on what iterating it yields: a list has
\* no `.get`, and iterating a dict yields its keys, which are strings
IsList(doc) == doc # None /\ doc.json = "list"
IsDict(doc) == doc # None /\ doc.json = "dict"

\* lines 46-50: the entries of the previous document, keyed by rig_name
RECURSIVE PutEntries(_, _)
PutEntries(d, entries) ==
    IF entries = <<>> THEN d
    ELSE PutEntries(SetItem(d, Head(entries).rig_name, Head(entries)), Tail(entries))

Previous(existing_data) ==
    IF IsDict(existing_data) /\ "rigs" \in DOMAIN existing_data
    THEN PutEntries(<<>>, existing_data.rigs)
    ELSE <<>>

\* lines 55-67: an entry of bw_ais.json with a name and a position replaces
\* the rig's entry (a missing rig_name is "")
RECURSIVE WithBw(_, _)
WithBw(d, entries) ==
    IF entries = <<>> THEN d
    ELSE LET entry == Head(entries)
             put == entry.rig_name # "" /\ entry.latitude # None
                    /\ entry.longitude # None
         IN WithBw(IF put
                   THEN SetItem(d, entry.rig_name,
                                [rig_name |-> entry.rig_name, mmsi |-> entry.mmsi,
                                 latitude |-> entry.latitude,
                                 longitude |-> entry.longitude,
                                 msgtime |-> entry.msgtime,
                                 source |-> Str("barentswatch")])
                   ELSE d,
                   Tail(entries))

\* lines 72-84: the same for the entries of kdhdata.json["rigs"]
RECURSIVE WithKdh(_, _)
WithKdh(d, entries) ==
    IF entries = <<>> THEN d
    ELSE LET entry == Head(entries)
             put == entry.rig_name # "" /\ entry.lat # None /\ entry.lon # None
         IN WithKdh(IF put
                    THEN SetItem(d, entry.rig_name,
                                 [rig_name |-> entry.rig_name, mmsi |-> entry.mmsi,
                                  latitude |-> entry.lat, longitude |-> entry.lon,
                                  msgtime |-> entry.timestamp,
                                  source |-> Str("kystdatahuset")])
                    ELSE d,
                    Tail(entries))

\* a variant that writes the empty entry for every rig of the registry
RECURSIVE WithRegistryAlways(_, _)
WithRegistryAlways(d, registry) ==
    IF registry = <<>> THEN d
    ELSE WithRegistryAlways(SetItem(d, Head(registry).key,
                                    [rig_name |-> Head(registry).key,
                                     mmsi |-> Head(registry).val,
                                     latitude |-> None, longitude |-> None,
                                     msgtime |-> None, source |-> None]),
                            Tail(registry))

\* lines 89-99: a rig of the registry without an entry gets an empty one
RECURSIVE WithRegistry(_, _)
WithRegistry(d, registry) ==
    IF registry = <<>> THEN d
    ELSE LET rig_name == Head(registry).key
         IN WithRegistry(IF HasKey(d, rig_name) THEN d
                         ELSE SetItem(d, rig_name,
                                      [rig_name |-> rig_name, mmsi |-> Head(registry).val,
                                       latitude |-> None, longitude |-> None,
                                       msgtime |-> None, source |-> None]),
                         Tail(registry))

\* the entries of a document, [] when it has none
RigsOf(doc) == IF IsDict(doc) /\ "rigs" \in DOMAIN doc THEN doc.rigs ELSE <<>>
ItemsOf(doc) == IF IsList(doc) THEN doc.items ELSE <<>>

\* lines 45-84: the exception the loading part ends with, "none" if it
\* completes
LoadError(existing_file, bw_file, kdh_file) ==
    IF ReadRaises(existing_file) THEN "JSONDecodeError"
    ELSE IF IsList(read_json(existing_file)) /\ ItemsOf(read_json(existing_file)) # <<>>
    THEN "AttributeError"
    ELSE IF ReadRaises(bw_file) THEN "JSONDecodeError"
    ELSE IF IsDict(read_json(bw_file)) THEN "AttributeError"
    ELSE IF ReadRaises(kdh_file) THEN "JSONDecodeError"
    ELSE IF IsList(read_json(kdh_file)) /\ ItemsOf(read_json(kdh_file)) # <<>>
    THEN "AttributeError"
    ELSE "none"

\* lines 45-99
Loaded(existing_file, bw_file, kdh_file) ==
    WithRegistry(WithKdh(WithBw(Previous(read_json(existing_file)),
                                ItemsOf(read_json(bw_file))),
                         RigsOf(read_json(kdh_file))),
                 RIG_MMSI)

RECURSIVE Values(_)
Values(d) == IF d = <<>> THEN <<>> ELSE <<Head(d).val>> \o Values(Tail(d))

\* the documents update_lastknownpos may find at BW_FILE and at KDH_FILE
BwEntry(name, lat, t) ==
    [rig_name |-> name, mmsi |-> 257095000, latitude |-> lat, longitude |-> lat,
     msgtime |-> t]
KdhEntry(name, lat, t) ==
    [rig_name |-> name, mmsi |-> 259783000, lat |-> lat, lon |-> lat, timestamp |-> t]

BwFiles ==
    { Missing, PartlyWritten,
      Written(JList(<<BwEntry("WEST LINUS", Num(1), Str("01:00Z"))>>)),
      Written(JList(<<BwEntry("WEST LINUS", None, Str("02:00Z"))>>)),
      Written(JObj(<<BwEntry("WEST LINUS", Num(1), Str("01:00Z"))>>)) }

KdhFiles ==
    { Missing, PartlyWritten,
      Written(JObjNoRigs),
      Written(JObj(<<KdhEntry("WEST ELARA", Num(2), Str("01:00Z"))>>)),
      Written(JObj(<<KdhEntry("DEEPSEA NORDKAPP", Num(3), Str("02:00Z"))>>)) }

\* the script from its start to the call of write_json, or to the exception
LKLoad(bw_file, kdh_file) ==
    /\ lkpc = "idle"
    /\ UNCHANGED <<storevars, anvars, fetchvars, pipevars, lkfile>>
    /\ LET err == LoadError(lkfile, bw_file, kdh_file)
       IN IF err # "none"
          THEN /\ lkoutcome' = err
               /\ UNCHANGED <<lkpc, last_known>>
          ELSE /\ last_known' = Loaded(lkfile, bw_file, kdh_file)
               /\ lkpc' = "open"
               /\ lkoutcome' = "running"

\* write_json, lines 36-40: open("w"), json.dump, close
LKOpen ==
    /\ lkpc = "open"
    /\ lkpc' = "dump"
    /\ lkfile' = Truncated
    /\ UNCHANGED <<storevars, anvars, fetchvars, pipevars, last_known, lkoutcome>>

LKDump ==
    /\ lkpc = "dump"
    /\ lkpc' = "close"
    /\ lkfile' = PartlyWritten
    /\ UNCHANGED <<storevars, anvars, fetchvars, pipevars, last_known, lkoutcome>>

LKClose ==
    /\ lkpc = "close"
    /\ lkpc' = "idle"
    /\ lkfile' = Written(JObj(Values(last_known)))
    /\ last_known' = <<>>
    /\ lkoutcome' = "done"
    /\ UNCHANGED <<storevars, anvars, fetchvars, pipevars>>

\* open, write or flush raises OSError: nothing catches it
LKWriteFails ==
    /\ lkpc \in {"open", "dump", "close"}
    /\ lkpc' = "idle"
    /\ last_known' = <<>>
    /\ lkoutcome' = "io_error"
    /\ UNCHANGED <<storevars, anvars, fetchvars, pipevars, lkfile>>

NextLK ==
    \/ \E bw_file \in BwFiles, kdh_file \in KdhFiles : LKLoad(bw_file, kdh_file)
    \/ LKOpen
    \/ LKDump
    \/ LKClose
    \/ LKWriteFails

SpecLK == Init /\ [][NextLK]_vars

-----------------------------------------------------------------------------
(* The analysis: values *)

\* Lengths are counted in whole centimetres.  The positions of the model lie
\* on the equator: the latitude is 0 and the longitude is given as the length
\* of the arc from the prime meridian, in centimetres.
CM_PER_M == 100

\* fetch_kdhdata.py and rig_well_analysis.py, in metres
STATIONARY_THRESHOLD_M == 50
ONSITE_THRESHOLD_M == 100
ON_SITE_DISTANCE_M == 200

\* what json.load may yield for a coordinate besides a finite number and null:
\* NaN, Infinity, a string
NaN == [nan |-> TRUE]
Infinity == [inf |-> TRUE]
Text == [str |-> "58.1"]

IsNum(x) == "num" \in DOMAIN x
IsText(x) == "str" \in DOMAIN x

\* a Python bool where None may stand as well
PyBool(b) == [bool |-> b]

\* the exception math.sin and math.cos raise on an infinite argument
ValueError == [error |-> "ValueError"]
IsError(x) == "error" \in DOMAIN x

\* fetch_kdhdata.valid_coords: neither is None, neither is NaN; math.isnan of
\* a string raises TypeError, which is caught and gives False
valid_coords(lat, lon) ==
    /\ lat # None /\ lon # None
    /\ ~IsText(lat) /\ lat # NaN
    /\ ~IsText(lon) /\ lon # NaN

\* rig_well_analysis.valid_coords: both are instances of int or float (NaN
\* and the infinities are floats)
rwa_valid_coords(lat, lon) ==
    /\ IsNum(lat) \/ lat = NaN \/ lat = Infinity
    /\ IsNum(lon) \/ lon = NaN \/ lon = Infinity

\* b - a for floats: inf - inf is nan
Minus(b, a) ==
    IF a = NaN \/ b = NaN THEN NaN
    ELSE IF a = Infinity /\ b = Infinity THEN NaN
    ELSE IF a = Infinity \/ b = Infinity THEN Infinity
    ELSE Num(b.num - a.num)

Abs(i) == IF i < 0 THEN -i ELSE i

\* haversine_km for numbers json.load yields: ValueError when the sine or the
\* cosine of an infinity is taken, nan when a NaN enters, and for two points
\* on the equator R times the difference of the longitudes, which is the
\* length of the arc between them
haversine(lat1, lon1, lat2, lon2) ==
    LET dphi == Minus(lat2, lat1)
        dlambda == Minus(lon2, lon1)
    IN IF Infinity \in {lat1, lat2, dphi, dlambda} THEN ValueError
       ELSE IF NaN \in {lat1, lat2, dphi, dlambda} THEN NaN
       ELSE Num(Abs(dlambda.num))

\* x > n, x <= n, x < y for floats: every comparison with nan is False
Gt(x, n) == IsNum(x) /\ x.num > n
Le(x, n) == IsNum(x) /\ x.num <= n
Lt(x, y) == IsNum(x) /\ IsNum(y) /\ x.num < y.num

\* round(x, 1) of a length in metres: to the nearest decimetre
Round1(x) == IF IsNum(x) THEN Num(((x.num + 5) \div 10) * 10) ELSE x

\* a variant of ApproachRatio: the ratio is not cut off at 0
ApproachRatioUnclamped(ref_distance, distance, movement) ==
    Num((2000 * (ref_distance.num - distance.num) + movement.num) \div (2 * movement.num))

\* round(max(0.0, (ref_distance - distance) / movement), 3), in thousandths
ApproachRatio(ref_distance, distance, movement) ==
    LET diff == ref_distance.num - distance.num
    IN IF diff <= 0 THEN Num(0)
       ELSE Num((2000 * diff + movement.num) \div (2 * movement.num))

\* the table of scripts/config/rw_analysis_config.py: horizon name -> the key
\* of the snapshot that holds the reference position
REFERENCE_POSITION_OPTIONS ==
    << [key |-> "12h", val |-> [tag |-> "msg_12h"]],
       [key |-> "1d", val |-> [tag |-> "msg_1d"]],
       [key |-> "2d", val |-> [tag |-> "msg_2d"]],
       [key |-> "3d", val |-> [tag |-> "msg_3d"]],
       [key |-> "1w", val |-> [tag |-> "msg_1w"]],
       [key |-> "1mo", val |-> [tag |-> "msg_1mo"]] >>

\* a variant of get_reference_position: an unknown horizon falls back to
\* the 12h bucket
get_reference_position_fallback(rig_data, period) ==
    IF HasKey(REFERENCE_POSITION_OPTIONS, period)
    THEN Get(rig_data, Lookup(REFERENCE_POSITION_OPTIONS, period).tag)
    ELSE Get(rig_data, "msg_12h")

\* get_reference_position(rig_data, period)
get_reference_position(rig_data, period) ==
    IF ~HasKey(REFERENCE_POSITION_OPTIONS, period) THEN None
    ELSE Get(rig_data, Lookup(REFERENCE_POSITION_OPTIONS, period).tag)

-----------------------------------------------------------------------------
(* scripts/fetch/fetch_kdhdata.py: the analysis of one rig *)

\* lines 102-106 and 156: the wells of the rig that have valid coordinates
WellsOfRig(wells, rig_name) ==
    SelectSeq(wells, LAMBDA w : w.rig_name # "" /\ w.rig_name = rig_name
                                /\ valid_coords(w.lat, w.lon))

\* lines 136-139: there is a reference position and it has valid coordinates
HasReference(reference_pos) ==
    /\ reference_pos # None
    /\ valid_coords(Get(reference_pos, "latitude"), Get(reference_pos, "longitude"))

\* lines 140-146: the movement since the reference position, None without one
Movement(reference_pos, lat, lon) ==
    IF HasReference(reference_pos)
    THEN haversine(reference_pos.latitude, reference_pos.longitude, lat, lon)
    ELSE None

\* a variant of RigMoving: the comparison is >= instead of >
RigMovingAtThreshold(reference_pos, movement) ==
    HasReference(reference_pos) /\ IsNum(movement)
    /\ movement.num >= STATIONARY_THRESHOLD_M * CM_PER_M

\* lines 133 and 147: False, and movement_m > STATIONARY_THRESHOLD_M when
\* there is a movement
RigMoving(reference_pos, movement) ==
    HasReference(reference_pos) /\ Gt(movement, STATIONARY_THRESHOLD_M * CM_PER_M)

\* line 164: reference_pos and movement_km and movement_km > 0
HasApproach(reference_pos, movement) ==
    reference_pos # None /\ movement # None /\ Gt(movement, 0)

\* lines 157-184: the entry of assigned_wells for well w, or the exception
WellEntry(w, lat, lon, reference_pos, movement) ==
    LET distance == haversine(lat, lon, w.lat, w.lon)
        ref_distance == haversine(reference_pos.latitude, reference_pos.longitude,
                                  w.lat, w.lon)
    IN IF IsError(distance) THEN ValueError
       ELSE IF ~HasApproach(reference_pos, movement)
       THEN [wellbore_name |-> w.wellbore_name, distance_m |-> Round1(distance),
             approach_ratio |-> None, distance |-> distance]
       ELSE IF IsError(ref_distance) THEN ValueError
       ELSE [wellbore_name |-> w.wellbore_name, distance_m |-> Round1(distance),
             approach_ratio |-> ApproachRatio(ref_distance, distance, movement),
             distance |-> distance]

\* line 186: min_distance is None or distance_m < min_distance
Closer(distance, min_distance) ==
    min_distance = None \/ Lt(distance, min_distance)

\* lines 152-188: the loop over the wells; acc is what the loop has built
RECURSIVE WellsLoop(_, _, _, _, _, _)
WellsLoop(ws, lat, lon, reference_pos, movement, acc) ==
    IF ws = <<>> THEN acc
    ELSE LET e == WellEntry(Head(ws), lat, lon, reference_pos, movement)
         IN IF IsError(e) THEN e
            ELSE WellsLoop(Tail(ws), lat, lon, reference_pos, movement,
                    [assigned_wells |->
                        Append(acc.assigned_wells,
                               [wellbore_name |-> e.wellbore_name,
                                distance_m |-> e.distance_m,
                                approach_ratio |-> e.approach_ratio]),
                     min_distance |->
                        IF Closer(e.distance, acc.min_distance)
                        THEN e.distance ELSE acc.min_distance,
                     likely_target_well |->
                        IF Closer(e.distance, acc.min_distance)
                        THEN e.wellbore_name ELSE acc.likely_target_well])

\* a rig the loop passes over (continue)
Skipped == [skipped |-> TRUE]

\* lines 116-199: the entry of rig_results for the rig, Skipped, or the
\* exception that ends main
KdhRig(snap, wells) ==
    LET recent == Get(snap, "msg_recent")
        lat == Get(recent, "latitude")
        lon == Get(recent, "longitude")
        rig_name == Get(recent, "rig_name")
        reference_pos == get_reference_position(snap, "12h")
        movement == Movement(reference_pos, lat, lon)
        loop == WellsLoop(WellsOfRig(wells, rig_name), lat, lon, reference_pos, movement,
                          [assigned_wells |-> <<>>, min_distance |-> None,
                           likely_target_well |-> None])
    IN IF recent = None THEN Skipped
       ELSE IF rig_name = "" \/ ~valid_coords(lat, lon) THEN Skipped
       ELSE IF IsError(movement) \/ IsError(loop) THEN ValueError
       ELSE [rig_moving |-> PyBool(RigMoving(reference_pos, movement)),
             movement_m |-> IF movement = None THEN None ELSE Round1(movement),
             assigned_wells |-> loop.assigned_wells,
             likely_target_well |-> loop.likely_target_well]

-----------------------------------------------------------------------------
(* scripts/analyze/rig_well_analysis.py: the analysis of one rig *)

\* `not x` for x in None, True, False
Not(x) == x = None \/ x = PyBool(FALSE)

\* lines 103-117: the movement since the last but one entry of running_msgs;
\* None when there is no such entry or it has no valid coordinates
RwaMovement(running, lat, lon) ==
    IF Len(running) >= 2
    THEN LET prev == running[Len(running) - 1].msg
         IN IF rwa_valid_coords(Get(prev, "latitude"), Get(prev, "longitude"))
            THEN haversine(prev.latitude, prev.longitude, lat, lon)
            ELSE None
    ELSE None

\* lines 105 and 117
IsMoving(movement) ==
    IF movement = None THEN None
    ELSE PyBool(Gt(movement, STATIONARY_THRESHOLD_M * CM_PER_M))

\* lines 72-78 and 123: the wells of the rig
AssignedWells(wells, rig_name) ==
    SelectSeq(wells, LAMBDA w : w.rig_name # "" /\ w.rig_name = rig_name)

\* lines 156-161
IsOnSite(is_moving, dist, well) ==
    /\ Not(is_moving)
    /\ Le(dist, ON_SITE_DISTANCE_M * CM_PER_M)
    /\ well.entryDate # ""

\* lines 134-161: the loop over the assigned wells; acc is what it has built
RECURSIVE DistanceLoop(_, _, _, _, _)
DistanceLoop(ws, lat, lon, is_moving, acc) ==
    IF ws = <<>> THEN acc
    ELSE LET well == Head(ws)
             dist == haversine(lat, lon, well.lat, well.lon)
         IN IF ~rwa_valid_coords(well.lat, well.lon)
            THEN DistanceLoop(Tail(ws), lat, lon, is_moving, acc)
            ELSE IF IsError(dist) THEN ValueError
            ELSE DistanceLoop(Tail(ws), lat, lon, is_moving,
                    [closest_well |->
                        IF acc.closest_distance_m = None \/ Lt(dist, acc.closest_distance_m)
                        THEN well ELSE acc.closest_well,
                     closest_distance_m |->
                        IF acc.closest_distance_m = None \/ Lt(dist, acc.closest_distance_m)
                        THEN dist ELSE acc.closest_distance_m,
                     on_site_well |->
                        IF IsOnSite(is_moving, dist, well) THEN well ELSE acc.on_site_well])

\* lines 167-175
Status(on_site_well, is_moving) ==
    IF on_site_well # None THEN [status |-> "on_site", confidence |-> "high"]
    ELSE IF Not(is_moving) THEN [status |-> "stationary", confidence |-> "medium"]
    ELSE [status |-> "moving", confidence |-> "medium"]

\* lines 88-201: the entry of rig_results for the rig, Skipped, or the
\* exception that ends main
RwaRig(snap, wells) ==
    LET m == Get(snap, "msg_recent")
        rig_name == Get(m, "rig_name")
        lat == Get(m, "latitude")
        lon == Get(m, "longitude")
        running == IF "running_msgs" \in DOMAIN snap THEN snap.running_msgs ELSE <<>>
        movement == RwaMovement(running, lat, lon)
        is_moving == IsMoving(movement)
        loop == DistanceLoop(AssignedWells(wells, rig_name), lat, lon, is_moving,
                             [closest_well |-> None, closest_distance_m |-> None,
                              on_site_well |-> None])
        st == Status(loop.on_site_well, is_moving)
    IN IF m = None THEN Skipped
       ELSE IF rig_name = "" \/ ~rwa_valid_coords(lat, lon) THEN Skipped
       ELSE IF IsError(movement) \/ IsError(loop) THEN ValueError
       ELSE [is_moving |-> is_moving,
             movement_m |-> IF movement = None THEN None ELSE Round1(movement),
             status |-> st.status,
             confidence |-> st.confidence,
             closest_well |-> Get(loop.closest_well, "wellbore_name"),
             closest_distance_m |-> Round1(loop.closest_distance_m),
             on_site_well |-> Get(loop.on_site_well, "wellbore_name")]

-----------------------------------------------------------------------------
(* The analysis of one rig: the inputs and the steps *)

MaxWells == 2

\* a position report of the rig, as the snapshot documents hold it
AisMsg(lat, lon) == [rig_name |-> "WEST LINUS", latitude |-> lat, longitude |-> lon]

\* a well of sodirdata.json
Well(name, rig_name, lon, entryDate) ==
    [wellbore_name |-> Str(name), rig_name |-> rig_name, lat |-> Num(0), lon |-> lon,
     entryDate |-> entryDate]

\* the snapshot of a rig as bw_snapshots.json and ais_msg_main.json hold it
Snapshot(recent, ref12h, ref1d, running) ==
    [msg_recent |-> recent, running_msgs |-> running, msg_12h |-> ref12h,
     msg_1d |-> ref1d, msg_2d |-> None]

\* the latest report: none, one at the origin, one without latitude
CurrentMsgs == {None, AisMsg(Num(0), Num(0)), AisMsg(None, Num(0))}

\* the 12h bucket: empty, or a report 0 m, 50 m, 50.04 m, 0.04 m and 200 m
\* east and 200 m west of the origin, or one without longitude or with an
\* infinite one
ReferenceMsgs ==
    {None, AisMsg(Num(0), Num(0)), AisMsg(Num(0), Num(5000)), AisMsg(Num(0), Num(5004)),
     AisMsg(Num(0), Num(4)), AisMsg(Num(0), Num(20000)), AisMsg(Num(0), Num(-20000)),
     AisMsg(Num(0), None), AisMsg(Num(0), Infinity)}

\* the history: the latest report alone, or after an earlier one
Histories(recent) ==
    {<<[msg |-> recent]>>}
    \cup {<<[msg |-> AisMsg(Num(0), lon)], [msg |-> recent]>> :
            lon \in {Num(5000), Num(5001), NaN}}

\* the wells a document may hold at one place of its list
WellChoices(name) ==
    {Well(name, "WEST LINUS", Num(3000), "2024-01-01"),
     Well(name, "WEST LINUS", Num(-3000), ""),
     Well(name, "WEST LINUS", Num(5000), ""),
     Well(name, "WEST LINUS", Num(15000), "2024-01-01"),
     Well(name, "WEST LINUS", None, "2024-01-01"),
     Well(name, "WEST LINUS", NaN, ""),
     Well(name, "WEST LINUS", Infinity, ""),
     Well(name, "WEST ELARA", Num(1000), "2024-01-01")}

WellName(i) == <<"W1", "W2", "W3">>[i]

\* the lists of at most n wells
RECURSIVE WellLists(_)
WellLists(n) ==
    IF n = 0 THEN {<<>>}
    ELSE LET shorter == WellLists(n - 1)
         IN shorter \cup
            {Append(ws, w) : ws \in {l \in shorter : Len(l) = n - 1}, w \in WellChoices(WellName(n))}

\* a snapshot and a list of wells are given; nothing is analysed yet
InitAnalysis ==
    /\ LKInit
    /\ FetchIdle
    /\ PipeIdle
    /\ now = 23 /\ pc = "idle" /\ snapshots = <<>> /\ msg = None /\ nbatch = 0
    /\ merged = {} /\ fs = [p \in Paths |-> Missing] /\ runlog = <<>>
    /\ outcome = "none" /\ nruns = 0
    /\ observed = [path |-> "none", state |-> "none"]
    /\ durable = [p \in Paths |-> Missing]
    /\ \E recent \in CurrentMsgs, ref12h \in ReferenceMsgs :
         \E running \in Histories(recent) :
            rig_snap = Snapshot(recent, ref12h, None, running)
    /\ rig_wells \in WellLists(MaxWells)
    /\ kdh_result = None
    /\ rwa_result = None
    /\ resolved = None

\* fetch_kdhdata.main, lines 113-199, for the rig
AnalyzeKdh ==
    /\ kdh_result = None
    /\ kdh_result' = KdhRig(rig_snap, rig_wells)
    /\ UNCHANGED <<storevars, lkvars, fetchvars, pipevars, rig_snap, rig_wells, rwa_result, resolved>>

\* rig_well_analysis.main, lines 87-201, for the rig
AnalyzeRwa ==
    /\ rwa_result = None
    /\ rwa_result' = RwaRig(rig_snap, rig_wells)
    /\ UNCHANGED <<storevars, lkvars, fetchvars, pipevars, rig_snap, rig_wells, kdh_result, resolved>>

NextAnalysis ==
    \/ AnalyzeKdh
    \/ AnalyzeRwa

SpecAnalysis == InitAnalysis /\ [][NextAnalysis]_vars

\* the horizons a caller may name; "6h" is none of the table
Periods == {"12h", "1d", "2d", "3d", "1w", "1mo", "6h"}

\* a snapshot is given, with its 12h and 1d buckets empty or filled
InitResolve ==
    /\ LKInit
    /\ FetchIdle
    /\ PipeIdle
    /\ now = 23 /\ pc = "idle" /\ snapshots = <<>> /\ msg = None /\ nbatch = 0
    /\ merged = {} /\ fs = [p \in Paths |-> Missing] /\ runlog = <<>>
    /\ outcome = "none" /\ nruns = 0
    /\ observed = [path |-> "none", state |-> "none"]
    /\ durable = [p \in Paths |-> Missing]
    /\ \E ref12h \in ReferenceMsgs, ref1d \in {None, AisMsg(Num(0), Num(7000))} :
         rig_snap = Snapshot(AisMsg(Num(0), Num(0)), ref12h, ref1d, <<>>)
    /\ rig_wells = <<>>
    /\ kdh_result = None
    /\ rwa_result = None
    /\ resolved = None

\* a call of get_reference_position(rig_snap, period)
Resolve(period) ==
    /\ resolved' = [period |-> period, snap |-> rig_snap,
                    value |-> get_reference_position(rig_snap, period)]
    /\ UNCHANGED <<storevars, lkvars, fetchvars, pipevars, rig_snap, rig_wells, kdh_result, rwa_result>>

NextResolve == \E period \in Periods : Resolve(period)

SpecResolve == InitResolve /\ [][NextResolve]_vars

-----------------------------------------------------------------------------
(* scripts/fetch/fetch_bwdata.py and scripts/fetch_bwdata.py: the latest
   message of every rig *)

\* set(rig_mmsi_dict.values())
rig_mmsi_set == {RIG_MMSI[i].val : i \in 1..Len(RIG_MMSI)}

\* MMSI_TO_RIG.get(mmsi, "UNKNOWN"): of two names with one mmsi the later one
\* of the registry stays
MMSI_TO_RIG(mmsi) ==
    LET named == {i \in 1..Len(RIG_MMSI) : RIG_MMSI[i].val = mmsi}
    IN IF named = {} THEN "UNKNOWN"
       ELSE RIG_MMSI[CHOOSE i \in named : \A j \in named : j <= i].key

\* what a loop over the messages has come to: the dict latest_by_mmsi, or
\* the exception that ended it
Kept(latest) == [raised |-> "none", latest |-> latest]
Raised(exception) == [raised |-> exception, latest |-> <<>>]

\* lines 107-108, and lines 91-95 of the older script: the message is passed
\* over
PassedOver(m) ==
    \/ m.mmsi \notin rig_mmsi_set
    \/ m.latitude = None \/ m.longitude = None
    \/ m.msgtime = None

\* filter_latest_by_rig, lines 101-125: the message replaces the one kept for
\* its mmsi when its parsed msgtime is greater; fromisoformat raises
\* ValueError on a text it cannot parse, and `>` raises TypeError between a
\* datetime with and one without an offset
RECURSIVE LatestByMmsi(_, _)
LatestByMmsi(msgs, latest_by_mmsi) ==
    IF msgs = <<>> THEN Kept(latest_by_mmsi)
    ELSE LET m == Head(msgs)
             msgtime == fromisoformat(m.msgtime)
             prev == Lookup(latest_by_mmsi, m.mmsi)
         IN IF PassedOver(m) THEN LatestByMmsi(Tail(msgs), latest_by_mmsi)
            ELSE IF msgtime.kind = "error" THEN Raised("ValueError")
            ELSE IF ~HasKey(latest_by_mmsi, m.mmsi)
                    \/ (prev.msgtime_dt.kind = msgtime.kind
                        /\ msgtime.t > prev.msgtime_dt.t)
            THEN LatestByMmsi(Tail(msgs),
                              SetItem(latest_by_mmsi, m.mmsi,
                                      [mmsi |-> m.mmsi,
                                       rig_name |-> MMSI_TO_RIG(m.mmsi),
                                       latitude |-> m.latitude,
                                       longitude |-> m.longitude,
                                       msgtime |-> m.msgtime,
                                       msgtime_dt |-> msgtime,
                                       source |-> "barentswatch"]))
            ELSE IF prev.msgtime_dt.kind # msgtime.kind THEN Raised("TypeError")
            ELSE LatestByMmsi(Tail(msgs), latest_by_mmsi)

\* lines 127-132: the values of the dict, without the parsed time
RECURSIVE WithoutDt(_)
WithoutDt(d) ==
    IF d = <<>> THEN <<>>
    ELSE <<[f \in DOMAIN Head(d).val \ {"msgtime_dt"} |-> Head(d).val[f]]>>
         \o WithoutDt(Tail(d))

\* filter_latest_by_rig(messages, RIG_MMSI): the list it returns, or the
\* exception it raises
filter_latest_by_rig(msgs) ==
    LET loop == LatestByMmsi(msgs, <<>>)
    IN [raised |-> loop.raised, rigs |-> WithoutDt(loop.latest)]

\* The order of two msgtime texts as Python compares strings.  The texts are
\* "2024-01-01T<hh>:00:00<offset>" with a two-digit hour, and "n/a" for one
\* that is no ISO-8601 text; "" < "+01:00" < "+02:00" < "Z", and "2" < "n".
OffsetRank(form) ==
    CASE form = "naive" -> 0
      [] form = "p1"    -> 1
      [] form = "p2"    -> 2
      [] OTHER          -> 3

TextGreater(a, b) ==
    IF a.form = "bad" \/ b.form = "bad" THEN a.form = "bad" /\ b.form # "bad"
    ELSE \/ a.local > b.local
         \/ a.local = b.local /\ OffsetRank(a.form) > OffsetRank(b.form)

\* scripts/fetch_bwdata.py, lines 82-106: the same loop, comparing the
\* msgtime texts themselves
RECURSIVE LatestByText(_, _)
LatestByText(msgs, latest_by_mmsi) ==
    IF msgs = <<>> THEN latest_by_mmsi
    ELSE LET m == Head(msgs)
         IN IF PassedOver(m) THEN LatestByText(Tail(msgs), latest_by_mmsi)
            ELSE IF ~HasKey(latest_by_mmsi, m.mmsi)
                    \/ TextGreater(m.msgtime, Lookup(latest_by_mmsi, m.mmsi).msgtime)
            THEN LatestByText(Tail(msgs),
                              SetItem(latest_by_mmsi, m.mmsi,
                                      [mmsi |-> m.mmsi,
                                       latitude |-> m.latitude,
                                       longitude |-> m.longitude,
                                       msgtime |-> m.msgtime,
                                       source |-> "barentswatch"]))
            ELSE LatestByText(Tail(msgs), latest_by_mmsi)

\* the messages the API may return: of WEST LINUS at 10:00Z and 11:00Z, at
\* 11:00+01:00 and 12:00+02:00 (both 10:00Z), without latitude, without
\* msgtime and with a msgtime that is no ISO-8601 text, of WEST ELARA, and of
\* a vessel that is not in the registry
AisMessage(mmsi, lat, lon, msgtime) ==
    [mmsi |-> mmsi, latitude |-> lat, longitude |-> lon, msgtime |-> msgtime]

AisMessages ==
    { AisMessage(257095000, Num(1), Num(1), TimeStr("Z", 10)),
      AisMessage(257095000, Num(2), Num(2), TimeStr("Z", 11)),
      AisMessage(257095000, Num(3), Num(3), TimeStr("p1", 11)),
      AisMessage(257095000, Num(4), Num(4), TimeStr("p2", 12)),
      AisMessage(257095000, None, Num(5), TimeStr("Z", 12)),
      AisMessage(257095000, Num(6), Num(6), None),
      AisMessage(257095000, Num(9), Num(9), TimeStr("bad", 0)),
      AisMessage(259783000, Num(7), Num(7), TimeStr("Z", 10)),
      AisMessage(219000000, Num(8), Num(8), TimeStr("Z", 12)) }

RECURSIVE MessageLists(_)
MessageLists(n) ==
    IF n = 0 THEN {<<>>}
    ELSE MessageLists(n - 1)
         \cup {Append(l, m) : l \in {x \in MessageLists(n - 1) : Len(x) = n - 1},
                               m \in AisMessages}

\* the API has returned a list of messages; no script has filtered it yet
InitFetch ==
    /\ LKInit
    /\ PipeIdle
    /\ AnalysisIdle
    /\ now = 23 /\ pc = "idle" /\ snapshots = <<>> /\ msg = None /\ nbatch = 0
    /\ merged = {} /\ fs = [p \in Paths |-> Missing] /\ runlog = <<>>
    /\ outcome = "none" /\ nruns = 0
    /\ observed = [path |-> "none", state |-> "none"]
    /\ durable = [p \in Paths |-> Missing]
    /\ messages \in MessageLists(MaxMessages)
    /\ bw_rigs = None
    /\ bwdata = None

\* fetch/fetch_bwdata.py, main, line 153
FilterLatest ==
    /\ bw_rigs = None
    /\ bw_rigs' = filter_latest_by_rig(messages)
    /\ UNCHANGED <<storevars, lkvars, anvars, pipevars, messages, bwdata>>

\* scripts/fetch_bwdata.py, lines 82-116
FilterLatestByText ==
    /\ bwdata = None
    /\ bwdata' = [rigs |-> Values(LatestByText(messages, <<>>))]
    /\ UNCHANGED <<storevars, lkvars, anvars, pipevars, messages, bw_rigs>>

NextFetch ==
    \/ FilterLatest
    \/ FilterLatestByText

SpecFetch == InitFetch /\ [][NextFetch]_vars

-----------------------------------------------------------------------------
(* scripts/fetch/merge_bw_kdh.py: the merge of the snapshot store and kdhdata *)

\* the buckets the store fills and the buckets the secondary source fills
BaseTags == {"msg_recent", "msg_12h", "msg_1d", "msg_2d"}
ExtendedTags == {"msg_3d", "msg_1w", "msg_1mo"}

\* a dict with the keys `tags`, read from the dict src
Picked(src, tags) == [tag \in tags |-> src[tag]]

\* a dict after its keys `tags` were assigned from the dict src
Assigned(entry, src, tags) ==
    [tag \in DOMAIN entry \cup tags |-> IF tag \in tags THEN src[tag] ELSE entry[tag]]

\* lines 36-42: the four buckets of every snapshot of the store, under
\* str(mmsi)
RECURSIVE BaseOf(_, _)
BaseOf(bw_data, merged_doc) ==
    IF bw_data = <<>> THEN merged_doc
    ELSE BaseOf(Tail(bw_data),
                SetItem(merged_doc, KeyToJson(Head(bw_data).key),
                        [tag \in BaseTags |-> Get(Head(bw_data).val, tag)]))

\* a variant of ApplyKdh that copies every bucket kdhdata carries
ApplyKdhEveryTag(entry, kdh_snap) ==
    Assigned(entry, kdh_snap, DOMAIN kdh_snap)

\* lines 52-54: the extended buckets that rig_snap carries are assigned
ApplyKdh(entry, kdh_snap) ==
    Assigned(entry, kdh_snap, ExtendedTags \cap DOMAIN kdh_snap)

\* lines 45-54: an empty rig_snap is passed over
RECURSIVE WithExtended(_, _)
WithExtended(kdh_data, merged_doc) ==
    IF kdh_data = <<>> THEN merged_doc
    ELSE LET mmsi_str == KeyToJson(Head(kdh_data).key)
             kdh_snap == Head(kdh_data).val
             entry == IF HasKey(merged_doc, mmsi_str) THEN Lookup(merged_doc, mmsi_str)
                      ELSE Picked(kdh_snap, {})
         IN WithExtended(Tail(kdh_data),
                         IF DOMAIN kdh_snap = {} THEN merged_doc
                         ELSE SetItem(merged_doc, mmsi_str, ApplyKdh(entry, kdh_snap)))

\* lines 30-54
Merged(bw_data, kdh_data) == WithExtended(kdh_data, BaseOf(bw_data, <<>>))

\* load_json_safe: the default {} for a missing file and for one json cannot
\* decode
load_json_safe(file) ==
    IF file.state = "full" THEN JsonLoadItems(file.doc, <<>>) ELSE <<>>

\* main: both documents are loaded and the merged one is written by
\* save_json_atomic, to a temporary file that then replaces the target (a
\* write that fails leaves the target as it is)
MergeBwKdh ==
    /\ main2' = Written(Merged(load_json_safe(fs[SNAPSHOT_PATH]), load_json_safe(kdhdata)))
    /\ main2' # main2
    /\ UNCHANGED <<storevars, lkvars, anvars, fetchvars, kdhdata, rwa_file, kdhpc, kdhmem>>

\* The reports the secondary source supplies (the script that writes them into
\* kdhdata.json is not among the sources; its documents are inputs)
KdhReport(k, days) == ReportAt(StrKey(k), TimeStr("Z", 0 - days * DAY_HOURS), Num(days), Num(days))

\* kdhdata.json: missing; {}; the 3d bucket of rig 1; all three extended
\* buckets of rig 1 next to a current and a 12h bucket of its own; buckets of
\* rig 2 and of a rig the store does not know; an empty dict for rig 1
KdhDocs ==
    { Missing,
      Written(<<>>),
      Written(<<[key |-> StrKey(1), val |-> [msg_3d |-> KdhReport(1, 3)]]>>),
      Written(<<[key |-> StrKey(1),
                 val |-> [msg_3d |-> KdhReport(1, 3), msg_1w |-> KdhReport(1, 7),
                          msg_1mo |-> KdhReport(1, 30), msg_12h |-> KdhReport(1, 1),
                          msg_recent |-> KdhReport(1, 0)]]>>),
      Written(<<[key |-> StrKey(2), val |-> [msg_1w |-> KdhReport(2, 7)]],
                [key |-> StrKey(3), val |-> [msg_1mo |-> None]]>>),
      Written(<<[key |-> StrKey(1), val |-> Picked(None, {})]>>) }

\* the store starts empty next to a kdhdata.json
InitMerge ==
    /\ LKInit
    /\ FetchIdle
    /\ AnalysisIdle
    /\ now = 23 /\ pc = "idle" /\ snapshots = <<>> /\ msg = None /\ nbatch = 0
    /\ merged = {} /\ fs = [p \in Paths |-> Missing] /\ runlog = <<>>
    /\ outcome = "none" /\ nruns = 0
    /\ observed = [path |-> "none", state |-> "none"]
    /\ durable = [p \in Paths |-> Missing]
    /\ kdhdata \in KdhDocs
    /\ main2 = Missing
    /\ rwa_file = Missing
    /\ kdhpc = "idle"
    /\ kdhmem = None

\* runs of the store, the first in hour 0, and merges at any moment
NextMerge ==
    \/ StartRun(1)
    \/ \E m \in FewReports(now) : MergeOne(m, MaxBatch)
    \/ Rollover
    \/ Strip
    \/ SaveSnapshots
    \/ SaveMain
    \/ MergeBwKdh

SpecMerge == InitMerge /\ [][NextMerge]_vars

-----------------------------------------------------------------------------
(* scripts/fetch/fetch_kdhdata.py: main as a process *)

\* lines 113-199: rig_results after the loop over ais_main, or the
\* ValueError that ends it
RECURSIVE RigResults(_, _, _)
RigResults(ais_main, wells, rig_results) ==
    IF ais_main = <<>> THEN [raised |-> "none", rig_results |-> rig_results]
    ELSE LET entry == KdhRig(Head(ais_main).val, wells)
         IN IF entry = ValueError THEN [raised |-> "ValueError", rig_results |-> <<>>]
            ELSE RigResults(Tail(ais_main), wells,
                            IF entry = Skipped THEN rig_results
                            ELSE SetItem(rig_results, KeyToJson(Head(ais_main).key), entry))

\* lines 89-199: both documents are loaded; main returns when ais_main is
\* empty, ends with the ValueError of a distance, or goes on to its writes
KdhAnalyze ==
    /\ kdhpc = "idle"
    /\ LET ais_main == load_json_safe(fs[MAIN_MSG_PATH])
           loop == RigResults(ais_main, rig_wells, <<>>)
       IN IF ais_main = <<>>
          THEN kdhpc' = "nothing_to_analyse" /\ kdhmem' = None
          ELSE IF loop.raised # "none"
          THEN kdhpc' = loop.raised /\ kdhmem' = None
          ELSE /\ kdhpc' = "save_kdh"
               /\ kdhmem' = [ais_main |-> ais_main, rig_results |-> loop.rig_results]
    /\ UNCHANGED <<storevars, lkvars, anvars, fetchvars, kdhdata, main2, rwa_file>>

\* line 204: save_json_atomic(ais_main, KDH_OUTPUT_PATH)
KdhSaveMain ==
    /\ kdhpc = "save_kdh"
    /\ kdhdata' = Written(JsonDump(kdhmem.ais_main))
    /\ kdhpc' = "save_output"
    /\ UNCHANGED <<storevars, lkvars, anvars, fetchvars, main2, rwa_file, kdhmem>>

\* lines 206-212: save_json_atomic({"generated_at", "rigs"}, OUTPUT_PATH)
KdhSaveOutput ==
    /\ kdhpc = "save_output"
    /\ rwa_file' = Written(kdhmem.rig_results)
    /\ kdhpc' = "done"
    /\ kdhmem' = None
    /\ UNCHANGED <<storevars, lkvars, anvars, fetchvars, kdhdata, main2>>

\* save_json_atomic raises OSError: the target stays as it was
KdhWriteFails ==
    /\ kdhpc \in {"save_kdh", "save_output"}
    /\ kdhpc' = "io_error"
    /\ kdhmem' = None
    /\ UNCHANGED <<storevars, lkvars, anvars, fetchvars, kdhdata, main2, rwa_file>>

\* ais_msg_main.json: missing, {}, or the four buckets of one rig
MainDocs ==
    {Missing, Written(<<>>)}
    \cup {Written(<<[key |-> StrKey(1),
                     val |-> [msg_recent |-> recent, msg_12h |-> ref12h,
                              msg_1d |-> None, msg_2d |-> None]]>>) :
            recent \in CurrentMsgs,
            ref12h \in {None, AisMsg(Num(0), Num(0)), AisMsg(Num(0), Num(5004)),
                        AisMsg(Num(0), Infinity)}}

\* sodirdata.json: no well, a well of the rig, a well at an infinite longitude
SodirDocs ==
    { <<>>,
      <<Well("W1", "WEST LINUS", Num(3000), "2024-01-01")>>,
      <<Well("W1", "WEST LINUS", Infinity, "")>> }

\* the documents fetch_kdhdata.main finds
InitAnalysisRun ==
    /\ LKInit
    /\ FetchIdle
    /\ now = 23 /\ pc = "idle" /\ snapshots = <<>> /\ msg = None /\ nbatch = 0
    /\ merged = {} /\ runlog = <<>>
    /\ outcome = "none" /\ nruns = 0
    /\ observed = [path |-> "none", state |-> "none"]
    /\ \E main_doc \in MainDocs :
         /\ fs = [p \in Paths |-> IF p = MAIN_MSG_PATH THEN main_doc ELSE Missing]
         /\ durable = fs
    /\ rig_snap = None
    /\ rig_wells \in SodirDocs
    /\ kdh_result = None
    /\ rwa_result = None
    /\ resolved = None
    /\ kdhdata \in KdhDocs
    /\ main2 = Missing
    /\ rwa_file = Missing
    /\ kdhpc = "idle"
    /\ kdhmem = None

NextAnalysisRun ==
    \/ KdhAnalyze
    \/ KdhSaveMain
    \/ KdhSaveOutput
    \/ KdhWriteFails
    \/ MergeBwKdh

SpecAnalysisRun == InitAnalysisRun /\ [][NextAnalysisRun]_vars

-----------------------------------------------------------------------------
(* Properties *)

\* the instant a report's msgtime denotes
Instant(m) == fromisoformat(m.msgtime).t

\* the dict keys under which this run has merged a report
TouchedKeys == {m.mmsi : m \in merged}

\* the run is between the merge of its reports and the end of main
AfterMerge == pc \in {"merge", "strip"} \cup WritePcs

\* the maximum of a non-empty set of numbers
MaxOf(S) == CHOOSE x \in S : \A y \in S : y <= x

\* C1: after a batch is merged, the history of every rig that received a
\* report has at most 12 entries, is sorted ascending by timestamp, and holds
\* no entry that is 12 hours old or older at the run's now.
C1_HistoryBounded ==
    AfterMerge =>
        \A i \in 1..Len(snapshots) :
            snapshots[i].key \in TouchedKeys =>
                LET h == snapshots[i].val.running_msgs
                IN /\ Len(h) <= 12
                   /\ \A a, b \in 1..Len(h) :
                        a < b => Instant(h[a].msg) <= Instant(h[b].msg)
                   /\ \A a \in 1..Len(h) : now - Instant(h[a].msg) < 12

\* C1 witness: thirteen reports were merged for one rig; its history holds
\* twelve of them, with different timestamps
C1_Witness ==
    /\ pc = "merge"
    /\ nbatch = 13
    /\ \E i \in 1..Len(snapshots) :
        LET h == snapshots[i].val.running_msgs
        IN /\ snapshots[i].key \in TouchedKeys
           /\ Len(h) = 12
           /\ Instant(h[1].msg) < Instant(h[12].msg)

\* C2: merge is idempotent, so no history ever holds two entries with the
\* same timestamp.
C2_NoDuplicateTimes ==
    \A i \in 1..Len(snapshots) :
        LET h == snapshots[i].val.running_msgs
        IN \A a, b \in 1..Len(h) : a < b => h[a].msg.msgtime # h[b].msg.msgtime

\* C3: after the reports of a run are merged, in any order, the current
\* position of a rig is the report with the greatest timestamp among them.
C3_CurrentIsNewest ==
    AfterMerge =>
        \A i \in 1..Len(snapshots) :
            snapshots[i].key \in TouchedKeys =>
                Instant(snapshots[i].val.msg_recent)
                    = MaxOf({Instant(m) : m \in {x \in merged : x.mmsi = snapshots[i].key}})

\* a step of the merge loop that merged the report msg' into a snapshot
MergedStep ==
    /\ pc = "merge"
    /\ pc' = "merge"
    /\ nbatch' = nbatch + 1
    /\ msg'.mmsi # NoKey
    /\ fromisoformat(msg'.msgtime).kind = "aware"

\* the snapshot of a key before that step
SnapshotBefore(k) == IF HasKey(snapshots, k) THEN Lookup(snapshots, k) ELSE NewSnapshot

\* the rig's history when the 12h bucket is refreshed: sorted, cut to 12
\* entries, not yet pruned
HistoryAtRefresh(k, m) == KeepMax(SortByDt(Appended(SnapshotBefore(k).running_msgs, m)))

OldEntries(h) == {i \in 1..Len(h) : now - Instant(h[i].msg) >= 12}

OldestOld(h) ==
    h[CHOOSE i \in OldEntries(h) :
        \A j \in OldEntries(h) :
            \/ Instant(h[i].msg) < Instant(h[j].msg)
            \/ Instant(h[i].msg) = Instant(h[j].msg) /\ i <= j].msg

RolloverStep == pc = "merge" /\ pc' = "strip"

\* C5: over the runs that fall on one UTC date the shift is applied by at most
\* one; a later run on that date leaves the 1d and 2d buckets as they are.
C5_OneShiftPerDate ==
    [][(/\ RolloverStep
        /\ \E r \in 1..Len(runlog) :
            runlog[r].date = Date(now) /\ runlog[r].shifted)
       => /\ Len(snapshots') = Len(snapshots)
          /\ \A i \in 1..Len(snapshots) :
                /\ snapshots'[i].val.msg_1d = snapshots[i].val.msg_1d
                /\ snapshots'[i].val.msg_2d = snapshots[i].val.msg_2d]_vars

\* C6: the first run on a new UTC date applies the shift, whatever its time
\* of day.
C6_FirstRunOfDateShifts ==
    \A r \in 2..Len(runlog) :
        (\A q \in 1..(r - 1) : runlog[q].date # runlog[r].date) => runlog[r].shifted

\* C7: when the shift is applied, every snapshot's new 2d bucket is its old 1d
\* bucket, its new 1d bucket is its old 12h bucket, and its 12h bucket,
\* current position and history are unchanged.
C7_ShiftCopies ==
    [][(RolloverStep /\ Hour(now) = 0)
       => /\ Len(snapshots') = Len(snapshots)
          /\ \A i \in 1..Len(snapshots) :
                /\ snapshots'[i].key = snapshots[i].key
                /\ snapshots'[i].val.msg_2d = snapshots[i].val.msg_1d
                /\ snapshots'[i].val.msg_1d = snapshots[i].val.msg_12h
                /\ snapshots'[i].val.msg_12h = snapshots[i].val.msg_12h
                /\ snapshots'[i].val.msg_recent = snapshots[i].val.msg_recent
                /\ snapshots'[i].val.running_msgs = snapshots[i].val.running_msgs]_vars

\* C7 witness: the shift has just been applied to a store of two snapshots,
\* one of which had a 1d bucket to move on
C7_Witness ==
    /\ pc = "strip"
    /\ Hour(now) = 0
    /\ Len(snapshots) >= 2
    /\ \E i \in 1..Len(snapshots) :
        /\ snapshots[i].val.msg_2d # None
        /\ snapshots[i].val.msg_1d # None
    /\ \E i \in 1..Len(snapshots) :
        /\ snapshots[i].val.msg_2d = None
        /\ snapshots[i].val.msg_1d # None

\* C8: a reader of a document never reads an empty or partly written one.
C8_ReaderSeesWholeDocument ==
    observed.state \notin {"empty", "partial"}

\* the document a position of the writer is writing
PathAt(p) == IF p \in {"open_snap", "dump_snap", "close_snap"} THEN SNAPSHOT_PATH
             ELSE MAIN_MSG_PATH

\* the step in which a write raises
FailedWriteStep == pc \in WritePcs /\ outcome' = "io_error"

\* C9: when the write of a document fails part-way, the document persisted
\* before is left intact at the target path.
C9_FailedWriteKeepsDocument ==
    [][(FailedWriteStep /\ durable[PathAt(pc)].state = "full")
       => fs'[PathAt(pc)] = durable[PathAt(pc)]]_vars

\* C10: when a run fails, none of its documents has been replaced by a new
\* one.
C10_AllOrNothing ==
    [][(outcome' \in {"io_error", "KeyError", "TypeError"} /\ outcome = "running")
       => \A p \in Paths : ~(fs'[p].state = "full" /\ fs'[p] # durable[p])]_vars

\* C11: loading a document that is missing or that json cannot decode, or that
\* has another top-level shape than expected, never raises: no run of
\* update_lastknownpos ends with an exception of its loading part (the store's
\* load_snapshots returns {} for every such file)
C11_LoadNeverRaises ==
    lkoutcome \notin {"JSONDecodeError", "AttributeError"}

\* a report the merge is to skip: no mmsi, no position, or a msgtime that is
\* missing, is no ISO-8601 text or carries no timezone
Malformed(m) ==
    \/ m.mmsi = NoKey
    \/ Get(m, "latitude") = None \/ Get(m, "longitude") = None
    \/ fromisoformat(m.msgtime).kind # "aware"

\* C12: a malformed report is skipped: the loop body that consumes it changes
\* no snapshot and the loop goes on with the rest of the batch (a TypeError
\* ends the run only on a msgtime without timezone)
C12_MalformedIsSkipped ==
    [][(pc = "merge" /\ (\/ outcome' = "TypeError"
                         \/ nbatch' = nbatch + 1 /\ Malformed(msg')))
       => (pc' = "merge" /\ snapshots' = snapshots)]_vars

\* what the analysis of a rig ended with: an entry of the output
IsKdhEntry(r) == "assigned_wells" \in DOMAIN r
IsRwaEntry(r) == "status" \in DOMAIN r

\* a position that is there and whose coordinates are finite numbers
Finite(lat, lon) == IsNum(lat) /\ IsNum(lon)
ValidPosition(p) == p # None /\ Finite(Get(p, "latitude"), Get(p, "longitude"))

\* C13: when the reference position is absent or has invalid coordinates,
\* the displacement and is_moving are both absent in the entry of the rig;
\* is_moving is not false
C13_NoReferenceNoVerdict ==
    (IsKdhEntry(kdh_result) /\ ~ValidPosition(rig_snap.msg_12h))
        => (kdh_result.movement_m = None /\ kdh_result.rig_moving = None)

\* C14: whenever is_moving is absent the status is unknown with confidence
\* low, never stationary or on_site
C14_UnknownWithoutVerdict ==
    (IsRwaEntry(rwa_result) /\ rwa_result.is_moving = None)
        => (rwa_result.status = "unknown" /\ rwa_result.confidence = "low")

\* the candidate targets of the rig under analysis: its wells with finite
\* coordinates, in the order of the document
Candidates ==
    SelectSeq(rig_wells, LAMBDA w : w.rig_name = rig_snap.msg_recent.rig_name
                                    /\ Finite(w.lat, w.lon))

\* the distance from the rig to a candidate
DistanceNow(w) == Abs(w.lon.num - rig_snap.msg_recent.longitude.num)

\* the place in Candidates of the likely target: the first of those at the
\* least distance
LikelyIndex ==
    CHOOSE i \in 1..Len(Candidates) :
        /\ \A j \in 1..Len(Candidates) :
              DistanceNow(Candidates[i]) <= DistanceNow(Candidates[j])
        /\ \A j \in 1..(i - 1) :
              DistanceNow(Candidates[j]) > DistanceNow(Candidates[i])

\* C15: the status is on_site exactly when a likely target exists, is_moving
\* is false, the distance to that target is at most 100 m and the target has
\* an entry date
C15_OnSiteIff ==
    IsRwaEntry(rwa_result)
        => (rwa_result.status = "on_site"
            <=> (/\ Candidates # <<>>
                 /\ rwa_result.is_moving = PyBool(FALSE)
                 /\ DistanceNow(Candidates[LikelyIndex]) <= ONSITE_THRESHOLD_M * CM_PER_M
                 /\ Candidates[LikelyIndex].entryDate # ""))

\* the displacement of the rig under analysis: the distance between its
\* reference position and its latest one, None when one of them is missing or
\* has a coordinate that is no finite number
Displacement(reference) ==
    IF ValidPosition(reference) /\ ValidPosition(rig_snap.msg_recent)
    THEN Num(Abs(rig_snap.msg_recent.longitude.num - reference.longitude.num))
    ELSE None

\* C16: for every well in the entry of a rig the approach ratio is absent
\* exactly when the displacement is absent or zero, and an approach ratio
\* that is there lies between 0 and 1 (1000 thousandths)
C16_ApproachRatioRange ==
    IsKdhEntry(kdh_result)
        => \A i \in 1..Len(kdh_result.assigned_wells) :
             LET ratio == kdh_result.assigned_wells[i].approach_ratio
                 displacement == Displacement(rig_snap.msg_12h)
             IN /\ ratio = None <=> (displacement = None \/ displacement = Num(0))
                /\ ratio # None => (0 <= ratio.num /\ ratio.num <= 1000)

\* a rig whose well has an approach ratio strictly between 0 and 1, and one
\* whose well has none
C16_Witness ==
    /\ IsKdhEntry(kdh_result)
    /\ Len(kdh_result.assigned_wells) = 2
    /\ kdh_result.assigned_wells[1].approach_ratio = Num(700)
    /\ kdh_result.assigned_wells[2].approach_ratio = Num(0)

C16_WitnessAbsent ==
    /\ IsKdhEntry(kdh_result)
    /\ Len(kdh_result.assigned_wells) = 1
    /\ kdh_result.assigned_wells[1].approach_ratio = None
    /\ kdh_result.movement_m = Num(0)

RECURSIVE NamesOf(_)
NamesOf(ws) == IF ws = <<>> THEN <<>> ELSE <<Head(ws).wellbore_name>> \o NamesOf(Tail(ws))

\* the rig under analysis has a latest position with finite coordinates and a
\* reference position that is absent or has no infinite coordinate
Analysable ==
    /\ ValidPosition(rig_snap.msg_recent)
    /\ rig_snap.msg_12h = None
        \/ Infinity \notin {Get(rig_snap.msg_12h, "latitude"), Get(rig_snap.msg_12h, "longitude")}

\* C17: the entry of a rig lists exactly the candidates with valid (finite)
\* coordinates, and its likely target is the first of those at the least
\* distance, absent when there is none: a well with a missing or invalid
\* coordinate neither appears nor changes the outcome
C17_LikelyIsFirstClosest ==
    (kdh_result # None /\ Analysable)
        => /\ IsKdhEntry(kdh_result)
           /\ NamesOf(kdh_result.assigned_wells) = NamesOf(Candidates)
           /\ kdh_result.likely_target_well =
                 IF Candidates = <<>> THEN None
                 ELSE Candidates[LikelyIndex].wellbore_name

\* the same for the analyses that end with an entry
C17_LikelyIsFirstClosestIfEntry ==
    (IsKdhEntry(kdh_result) /\ Analysable)
        => /\ NamesOf(kdh_result.assigned_wells) = NamesOf(Candidates)
           /\ kdh_result.likely_target_well =
                 IF Candidates = <<>> THEN None
                 ELSE Candidates[LikelyIndex].wellbore_name

\* the position rig_well_analysis compares the latest one with: the last but
\* one entry of the history, None when there is none
Previous2 ==
    IF Len(rig_snap.running_msgs) >= 2
    THEN rig_snap.running_msgs[Len(rig_snap.running_msgs) - 1].msg
    ELSE None

\* C18: when the latest and the reference position are both valid, is_moving
\* is true exactly when the displacement is more than 50 m; at exactly 50 m
\* the rig is not moving.  fetch_kdhdata compares with the 12h bucket,
\* rig_well_analysis with the last but one entry of the history.
C18_MovingIffBeyondThreshold ==
    /\ (IsKdhEntry(kdh_result) /\ ValidPosition(rig_snap.msg_12h))
          => kdh_result.rig_moving =
               PyBool(Displacement(rig_snap.msg_12h).num > STATIONARY_THRESHOLD_M * CM_PER_M)
    /\ (IsRwaEntry(rwa_result) /\ ValidPosition(Previous2))
          => rwa_result.is_moving =
               PyBool(Displacement(Previous2).num > STATIONARY_THRESHOLD_M * CM_PER_M)

\* both analyses have seen a displacement of exactly 50 m, and fetch_kdhdata
\* found the rig not moving
C18_Witness ==
    /\ IsKdhEntry(kdh_result) /\ IsRwaEntry(rwa_result)
    /\ Displacement(rig_snap.msg_12h) = Num(STATIONARY_THRESHOLD_M * CM_PER_M)
    /\ Displacement(Previous2) = Num(STATIONARY_THRESHOLD_M * CM_PER_M)
    /\ kdh_result.rig_moving = PyBool(FALSE)
    /\ rwa_result.is_moving = PyBool(FALSE)

\* the coordinate pairs the analysis of the rig puts to a validity check: of
\* the latest position, of the reference positions, of the wells
CheckedCoords ==
    {<<Get(p, "latitude"), Get(p, "longitude")>> :
        p \in {rig_snap.msg_recent, rig_snap.msg_12h, Previous2} \ {None}}
    \cup {<<rig_wells[i].lat, rig_wells[i].lon>> : i \in 1..Len(rig_wells)}

\* C19: a latitude or longitude that is missing or is no finite number (null,
\* NaN, an infinity, a text) is classified as invalid by the validity checks
\* of both scripts, and no analysis that gets to the wells of a rig ends in
\* the distance computation failing on such a value
C19_OnlyFiniteIsValid ==
    /\ kdh_result \notin {None, Skipped}
          => /\ \A c \in CheckedCoords : valid_coords(c[1], c[2]) => Finite(c[1], c[2])
             /\ ~IsError(kdh_result)
    /\ rwa_result \notin {None, Skipped}
          => /\ \A c \in CheckedCoords : rwa_valid_coords(c[1], c[2]) => Finite(c[1], c[2])
             /\ ~IsError(rwa_result)

\* the horizons and the bucket of the snapshot each of them names
Horizons == {"12h", "1d", "2d", "3d", "1w", "1mo"}
BucketOf(snap, horizon) ==
    CASE horizon = "12h" -> Get(snap, "msg_12h")
      [] horizon = "1d" -> Get(snap, "msg_1d")
      [] horizon = "2d" -> Get(snap, "msg_2d")
      [] horizon = "3d" -> Get(snap, "msg_3d")
      [] horizon = "1w" -> Get(snap, "msg_1w")
      [] horizon = "1mo" -> Get(snap, "msg_1mo")

\* C20: the resolver is a lookup: it returns the bucket the horizon names,
\* nothing when the horizon is unknown or the bucket is empty, and the
\* snapshot is after the call what it was before
C20_ResolveIsLookup ==
    resolved # None
        => /\ resolved.value =
                 IF resolved.period \in Horizons
                 THEN BucketOf(resolved.snap, resolved.period) ELSE None
           /\ rig_snap = resolved.snap

\* a horizon that names a filled bucket was resolved to that bucket
C20_Witness ==
    /\ resolved # None
    /\ resolved.period = "1d"
    /\ resolved.value = AisMsg(Num(0), Num(7000))
    /\ rig_snap.msg_12h # None

\* an unknown horizon was resolved to nothing though the 12h bucket is filled
C20_WitnessUnknown ==
    /\ resolved # None
    /\ resolved.period = "6h"
    /\ resolved.value = None
    /\ rig_snap.msg_12h # None

\* the store as the run found it, and the snapshot document it has just written
LoadedStore == load_snapshots(durable[SNAPSHOT_PATH])
PersistedStore == fs[SNAPSHOT_PATH].doc

\* save_snapshots has returned: the snapshot document of this run is on disk
JustPersisted == pc = "open_main"

\* the places of the persisted document that carry the key k
ItemsWithKey(doc, k) == {i \in 1..Len(doc) : doc[i].key = k}

\* the reports a history holds
ReportsIn(running) == {running[i].msg : i \in 1..Len(running)}

\* C25: the snapshot a run persisted is the one the next run's merge updates.
\* When the store a run loaded holds a snapshot of an asset with one report in
\* its history, and the run merges one report of that asset with another
\* timestamp, both younger than 12 hours, the document the run persists holds
\* exactly one snapshot of the asset and its history holds both reports.
C25_IdentityAcrossRuns ==
    JustPersisted =>
        \A m \in merged :
            LET k == KeyToJson(m.mmsi)
                before == Lookup(LoadedStore, k).running_msgs
            IN (/\ merged = {m}
                /\ HasKey(LoadedStore, k)
                /\ Len(before) = 1
                /\ before[1].msg.mmsi = m.mmsi
                /\ Instant(before[1].msg) # Instant(m)
                /\ now - Instant(before[1].msg) < HOURS_12
                /\ now - Instant(m) < HOURS_12)
               => /\ Cardinality(ItemsWithKey(PersistedStore, k)) = 1
                  /\ \A i \in ItemsWithKey(PersistedStore, k) :
                        ReportsIn(PersistedStore[i].val.running_msgs) = {before[1].msg, m}

\* C26: an entry of a persisted history that has become 12 hours old when a
\* later run merges a report of the same asset is considered by that run: if
\* it is the oldest entry of the history it is in the 12h bucket of the
\* snapshot the run persists, and it is no longer in the history.
C26_AgedEntryPromoted ==
    JustPersisted =>
        \A m \in merged :
            LET k == KeyToJson(m.mmsi)
                before == Lookup(LoadedStore, k).running_msgs
            IN (/\ HasKey(LoadedStore, k)
                /\ before # <<>>
                /\ before[1].msg.mmsi = m.mmsi
                /\ now - Instant(before[1].msg) >= HOURS_12
                /\ \A x \in merged : x.mmsi = m.mmsi => Instant(x) > Instant(before[1].msg))
               => \A i \in ItemsWithKey(PersistedStore, k) :
                     /\ PersistedStore[i].val.msg_12h = before[1].msg
                     /\ before[1].msg \notin ReportsIn(PersistedStore[i].val.running_msgs)

\* C27: in the snapshot document a run persists no history holds an entry
\* that is 12 hours old or older at the run's now, and none holds more than
\* 12 entries, whether or not the asset received a report in the run
C27_EveryHistoryPruned ==
    JustPersisted =>
        \A i \in 1..Len(PersistedStore) :
            LET h == PersistedStore[i].val.running_msgs
            IN /\ Len(h) <= MAX_RUNNING
               /\ \A a \in 1..Len(h) : now - Instant(h[a].msg) < HOURS_12

\* the rigs for which a feed document supplies an entry with a position
Supplied(bw_file, kdh_file) ==
    LET bw == ItemsOf(read_json(bw_file))
        kdh == RigsOf(read_json(kdh_file))
    IN {bw[i].rig_name : i \in {j \in 1..Len(bw) :
                                  bw[j].latitude # None /\ bw[j].longitude # None}}
       \cup {kdh[i].rig_name : i \in {j \in 1..Len(kdh) :
                                       kdh[j].lat # None /\ kdh[j].lon # None}}

\* the entries of the previous document and the names they carry
PreviousEntries == RigsOf(read_json(lkfile))
PreviousNames == {PreviousEntries[i].rig_name : i \in 1..Len(PreviousEntries)}
RegistryNames == {RIG_MMSI[i].key : i \in 1..Len(RIG_MMSI)}

\* an entry without a position
NullFilled(entry) == entry.latitude = None /\ entry.longitude = None

\* what a run that read the feeds bw_file and kdh_file is to hand to
\* write_json, d, given the previous document
PreservesOld(d, bw_file, kdh_file) ==
    /\ \A i \in 1..Len(PreviousEntries) :
          LET old == PreviousEntries[i]
          IN /\ old.rig_name \notin Supplied(bw_file, kdh_file)
                  => HasKey(d, old.rig_name) /\ Lookup(d, old.rig_name) = old
             /\ ~NullFilled(old)
                  => HasKey(d, old.rig_name) /\ ~NullFilled(Lookup(d, old.rig_name))
    /\ \A i \in 1..Len(d) :
          (NullFilled(d[i].val) /\ d[i].key \notin PreviousNames)
              => /\ d[i].key \in RegistryNames
                 /\ d[i].key \notin Supplied(bw_file, kdh_file)
    /\ \A name \in RegistryNames :
          Cardinality({i \in 1..Len(d) : d[i].val.rig_name = name}) = 1

\* C23: update_lastknownpos preserves old positions.  In every run that gets
\* to write: a rig of the previous document for which neither feed supplies an
\* entry with latitude and longitude keeps its previous entry unchanged; an
\* entry without a position is new only for a rig of the registry that has
\* no previous entry and no new data; no entry with a position is replaced by
\* one without; every rig of the registry has exactly one entry; and the
\* document the run writes holds exactly these entries.
C23_OldPositionsPreserved ==
    [][/\ \A bw_file \in BwFiles, kdh_file \in KdhFiles :
            (LKLoad(bw_file, kdh_file) /\ lkpc' = "open")
                => PreservesOld(last_known', bw_file, kdh_file)
       /\ (lkpc = "close" /\ lkoutcome' = "done")
            => /\ lkfile'.state = "full"
               /\ RigsOf(read_json(lkfile')) = Values(last_known)]_vars

\* a run has read a previous document in which WEST LINUS has a position and
\* feeds that supply none for it, and is about to write the entry unchanged
C23_Witness ==
    /\ lkpc = "open"
    /\ \E bw_file \in BwFiles, kdh_file \in KdhFiles :
        /\ LoadError(lkfile, bw_file, kdh_file) = "none"
        /\ last_known = Loaded(lkfile, bw_file, kdh_file)
        /\ "WEST LINUS" \notin Supplied(bw_file, kdh_file)
        /\ \E i \in 1..Len(PreviousEntries) :
            /\ PreviousEntries[i].rig_name = "WEST LINUS"
            /\ ~NullFilled(PreviousEntries[i])
            /\ Lookup(last_known, "WEST LINUS") = PreviousEntries[i]

\* the input messages that count for a rig: the mmsi is in the registry and
\* latitude, longitude and msgtime are not null
ValidMessages(msgs) == {i \in 1..Len(msgs) : ~PassedOver(msgs[i])}

\* the msgtime of a message as an instant
InstantOf(m) == fromisoformat(m.msgtime).t

\* the input message a returned message was made of
MadeOf(r, m) ==
    /\ r.mmsi = m.mmsi /\ r.latitude = m.latitude /\ r.longitude = m.longitude
    /\ r.msgtime = m.msgtime

\* what the claim says of the list returned for the messages msgs
LatestPerMmsi(returned, msgs) ==
    /\ \A i, j \in 1..Len(returned) : returned[i].mmsi = returned[j].mmsi => i = j
    /\ \A i \in 1..Len(returned) :
          /\ returned[i].mmsi \in rig_mmsi_set
          /\ \E a \in ValidMessages(msgs) : MadeOf(returned[i], msgs[a])
    /\ \A a \in ValidMessages(msgs) :
          \E i \in 1..Len(returned) :
              /\ returned[i].mmsi = msgs[a].mmsi
              /\ InstantOf(returned[i]) >= InstantOf(msgs[a])

\* the same messages in every other order
Reorderings(msgs) ==
    {[i \in 1..Len(msgs) |-> msgs[f[i]]] : f \in Permutations(1..Len(msgs))}

AsSet(list) == {list[i] : i \in 1..Len(list)}

\* C24: the list filter_latest_by_rig returns, and the list the older
\* script writes, holds at most one message per mmsi, only mmsi of the
\* registry, only messages with latitude, longitude and msgtime; for every
\* mmsi with such messages it holds the one whose msgtime is the latest
\* instant; and it is the same list for every order of the input.
C24_LatestPerRig ==
    /\ (bw_rigs # None /\ bw_rigs.raised = "none")
          => /\ LatestPerMmsi(bw_rigs.rigs, messages)
             /\ \A other \in Reorderings(messages) :
                   filter_latest_by_rig(other).raised = "none"
                     => AsSet(filter_latest_by_rig(other).rigs) = AsSet(bw_rigs.rigs)
    /\ bwdata # None
          => /\ LatestPerMmsi(bwdata.rigs, messages)
             /\ \A other \in Reorderings(messages) :
                   AsSet(Values(LatestByText(other, <<>>))) = AsSet(bwdata.rigs)

\* the extended buckets a document carries: asset, bucket and report
ExtendedOf(doc) ==
    UNION {{<<doc[i].key, tag, doc[i].val[tag]>> :
                tag \in ExtendedTags \cap DOMAIN doc[i].val} : i \in 1..Len(doc)}

\* what a merge that found the store document bw_file and the secondary
\* document kdh_file is to write
OnlyExtendedApplied(out, bw_file, kdh_file) ==
    LET bw_data == load_json_safe(bw_file)
        kdh_data == load_json_safe(kdh_file)
    IN /\ ExtendedOf(out) = ExtendedOf(kdh_data)
       /\ \A i \in 1..Len(bw_data) :
             /\ HasKey(out, bw_data[i].key)
             /\ \A tag \in BaseTags :
                   Lookup(out, bw_data[i].key)[tag] = Get(bw_data[i].val, tag)
       /\ \A i \in 1..Len(out) :
             ~HasKey(bw_data, out[i].key) => DOMAIN out[i].val \cap BaseTags = {}

\* C21: the extended buckets 3d, 1w and 1mo are independent of the history.
\* No step of the store (merging a report, the rollover, its writes) changes
\* the merged document or the secondary document; and the merge writes, for
\* every asset, exactly the extended buckets the secondary document supplies,
\* with its reports, next to the current, 12h, 1d and 2d buckets of the store
\* as they are, whatever buckets else the secondary document carries.
C21_ExtendedBucketsApart ==
    [][/\ storevars' # storevars => (main2' = main2 /\ kdhdata' = kdhdata)
       /\ main2' # main2
            => /\ main2'.state = "full"
               /\ OnlyExtendedApplied(main2'.doc, fs[SNAPSHOT_PATH], kdhdata)]_vars

\* a merged document in which rig 1 has the 3d bucket of the secondary
\* document and the current report of the store, while the secondary document
\* carries a current report of its own
C21_Witness ==
    /\ main2.state = "full"
    /\ fs[SNAPSHOT_PATH].state = "full"
    /\ HasKey(main2.doc, StrKey(1))
    /\ HasKey(load_json_safe(kdhdata), StrKey(1))
    /\ HasKey(load_json_safe(fs[SNAPSHOT_PATH]), StrKey(1))
    /\ LET out == Lookup(main2.doc, StrKey(1))
           kdh_snap == Lookup(load_json_safe(kdhdata), StrKey(1))
           bw_snap == Lookup(load_json_safe(fs[SNAPSHOT_PATH]), StrKey(1))
       IN /\ "msg_3d" \in DOMAIN kdh_snap /\ "msg_recent" \in DOMAIN kdh_snap
          /\ "msg_3d" \in DOMAIN out
          /\ out.msg_3d = kdh_snap.msg_3d
          /\ out.msg_recent = bw_snap.msg_recent
          /\ out.msg_recent # kdh_snap.msg_recent

\* C22: an analysis run only reads: no step of fetch_kdhdata.main changes a
\* snapshot document of the store, the merged document, or kdhdata.json, the
\* secondary document the 3d, 1w and 1mo buckets are read from; it writes
\* rig_well_analysis.json only.
C22_AnalysisOnlyReads ==
    [][kdhpc' # kdhpc => (fs' = fs /\ main2' = main2 /\ kdhdata' = kdhdata)]_vars

====
